---------------------------- MODULE Spec2Model ----------------------------
(***************************************************************************)
(* Black-Scholes finite-difference solvers: FiniteDifferenceSolver.solve   *)
(* and AdaptiveSolver.solve (solvers.py), adaptive_grid / uniform_grid     *)
(* (grids.py), payoff / apply_boundary_conditions (utils.py).              *)
(*                                                                         *)
(* Number model.  The program computes in float64.  Here every number is   *)
(* fixed point: asset prices (grid points, S_max, K) are integers, option  *)
(* values are integers in units of 1/VScale, and every assignment of a     *)
(* computed value rounds to the nearest representable number, ties to even *)
(* (RoundDiv), which is the rounding of IEEE arithmetic.  Midpoints of two *)
(* neighbouring representable prices therefore collapse onto one of them,  *)
(* as they do in float64.  Python indices are 0-based, sequences here are  *)
(* 1-based: python x[i] is x[i + 1].                                        *)
(***************************************************************************)
EXTENDS Integers, Sequences, FiniteSets

VARIABLES
    solver,            \* which class solve() is called on
    option_type,       \* self.option_type
    S_max,             \* self.S_max
    K,                 \* self.K
    N_S,               \* self.N_S
    N_t,               \* self.N_t
    refine_tol,        \* self.refine_tol, a fraction <<num, den>>
    max_refine_steps,  \* self.max_refine_steps
    pc,                \* position in solve()
    S,                 \* the initial uniform grid
    V,                 \* uniform solver: the dense matrix, V[n] a row
    n,                 \* the time index being computed
    i,                 \* uniform solver: the interior loop index (python)
    Vn,                \* adaptive solver: values of the last finalized step
    S_curr,            \* adaptive solver: working mesh
    V_curr,            \* adaptive solver: working values
    pass,              \* adaptive solver: refinement passes run in this step
    grids,             \* adaptive solver: refinement history
    V_list,            \* adaptive solver: per-index value arrays
    S_list,            \* adaptive solver: per-index meshes
    gridIn,            \* adaptive_grid called on its own: argument S
    maskIn,            \* adaptive_grid called on its own: argument refine_mask
    gridOut            \* adaptive_grid called on its own: the result

vars == <<solver, option_type, S_max, K, N_S, N_t, refine_tol, max_refine_steps,
          pc, S, V, n, i, Vn, S_curr, V_curr, pass, grids, V_list, S_list,
          gridIn, maskIn, gridOut>>

params == <<solver, option_type, S_max, K, N_S, N_t, refine_tol, max_refine_steps>>
uniformVars == <<V, i>>
adaptiveVars == <<Vn, S_curr, V_curr, pass, grids, V_list, S_list>>
gridVars == <<gridIn, maskIn, gridOut>>

(***************************************************************************)
(* Bounds of the model.                                                    *)
(***************************************************************************)
MaxNS == 4          \* N_S ranges over 2..MaxNS
MaxNt == 3          \* N_t ranges over 1..MaxNt
MaxRefine == 3      \* max_refine_steps ranges over 0..MaxRefine
MaxSmax == 5        \* S_max ranges over 2..MaxSmax price units
MaxK == 6           \* K ranges over 1..MaxK price units
VScale == 16        \* option values are multiples of 1/VScale
MaxCoord == 6       \* adaptive_grid on its own: grid points in 0..MaxCoord
MaxGridLen == 4     \* adaptive_grid on its own: grids of 1..MaxGridLen points

(***************************************************************************)
(* Program constants: the market parameters the tests and main.py use.     *)
(***************************************************************************)
RNum == 1           \* r = 0.05 = RNum / RDen
RDen == 20
Sig2Num == 1        \* sigma = 0.2, sigma^2 = 0.04 = Sig2Num / Sig2Den
Sig2Den == 25
T == 1              \* T = 1.0

OptionTypes == {"call", "put", "other"}
RefineTols == {<<1, 100>>, <<3, 1>>}    \* 1e-2 (the default) and a coarse one
None == <<>>                            \* python None in V_list / S_list

Abs(x) == IF x < 0 THEN -x ELSE x
Max(a, b) == IF a >= b THEN a ELSE b

\* a / b for b > 0, rounded to the nearest integer, ties to even.
RoundDiv(a, b) ==
    LET q == a \div b
        rem == a % b
    IN  IF 2 * rem < b THEN q
        ELSE IF 2 * rem > b THEN q + 1
        ELSE IF q % 2 = 0 THEN q ELSE q + 1

Last(s) == s[Len(s)]
Zeros(len) == [j \in 1..len |-> 0]
StrictlyIncreasing(s) == \A j \in 1..(Len(s) - 1) : s[j] < s[j + 1]
Range(s) == {s[j] : j \in 1..Len(s)}

(***************************************************************************)
(* grids.py                                                                *)
(***************************************************************************)
\* np.linspace(S_min, S_max, N) with S_min = 0: N points, the last one S_max.
uniform_grid(smax, num) ==
    [j \in 1..num |-> IF j = num THEN smax ELSE RoundDiv((j - 1) * smax, num - 1)]

\* 0.5 * (a + b)
Midpoint(a, b) == RoundDiv(a + b, 2)

\* variant: only the left endpoint's flag is looked at
PairFlaggedLeftOnly(mask, k) == mask[k - 1]
\* has the pair (i-1, i), python indices, a flagged endpoint?  k = i + 1.
PairFlagged(mask, k) == mask[k - 1] \/ mask[k]

\* the list S_new after the loop at grids.py:12-16 has run for i = 1..k-1
RECURSIVE AppendLoop(_, _, _)
AppendLoop(grid, mask, k) ==
    IF k = 1 THEN <<grid[1]>>
    ELSE LET before == Append(AppendLoop(grid, mask, k - 1), grid[k])
         IN  IF PairFlagged(mask, k)
             THEN Append(before, Midpoint(grid[k - 1], grid[k]))
             ELSE before

RECURSIVE InsertSorted(_, _)
InsertSorted(s, x) ==
    IF s = <<>> THEN <<x>>
    ELSE IF x >= Last(s) THEN Append(s, x)
    ELSE Append(InsertSorted(SubSeq(s, 1, Len(s) - 1), x), Last(s))

\* ndarray.sort()
RECURSIVE SortSeq(_)
SortSeq(s) ==
    IF s = <<>> THEN <<>>
    ELSE InsertSorted(SortSeq(SubSeq(s, 1, Len(s) - 1)), Last(s))

RECURSIVE DropRepeats(_)
DropRepeats(s) ==
    IF Len(s) <= 1 THEN s
    ELSE LET front == DropRepeats(SubSeq(s, 1, Len(s) - 1))
         IN  IF Last(s) = Last(front) THEN front ELSE Append(front, Last(s))

\* np.unique: the sorted distinct elements
np_unique(s) == DropRepeats(SortSeq(s))

adaptive_grid(grid, mask) == SortSeq(np_unique(AppendLoop(grid, mask, Len(grid))))

(***************************************************************************)
(* utils.py                                                                *)
(***************************************************************************)
\* variant: the two branches exchanged
PayoffSwapped(grid, strike, otype) ==
    [j \in 1..Len(grid) |->
        IF otype = "call" THEN VScale * Max(strike - grid[j], 0)
        ELSE VScale * Max(grid[j] - strike, 0)]

\* np.maximum(S - K, 0) for a call, np.maximum(K - S, 0) for anything else
payoff(grid, strike, otype) ==
    [j \in 1..Len(grid) |->
        IF otype = "call" THEN VScale * Max(grid[j] - strike, 0)
        ELSE VScale * Max(strike - grid[j], 0)]

\* K * np.exp(-r * tau), tau = tauNum / tauDen, in value units.  exp(-x) is
\* its series through the x^2 term; for x = r * tau <= 0.05 the remainder is
\* below the resolution 1/VScale.
DiscountedStrike(strike, tauNum, tauDen) ==
    LET xn == RNum * tauNum
        xd == RDen * tauDen
    IN  RoundDiv(strike * VScale * (2 * xd * xd - 2 * xn * xd + xn * xn),
                 2 * xd * xd)

\* variant: the two ends exchanged
BoundarySwapped(vals, grid, strike, tauNum, tauDen, otype) ==
    IF otype = "call"
    THEN [vals EXCEPT ![1] = VScale * Last(grid) - DiscountedStrike(strike, tauNum, tauDen),
                      ![Len(vals)] = 0]
    ELSE [vals EXCEPT ![1] = 0,
                      ![Len(vals)] = DiscountedStrike(strike, tauNum, tauDen)]

\* V[0] and V[-1] overwritten; the later assignment wins when they coincide
apply_boundary_conditions(vals, grid, strike, tauNum, tauDen, otype) ==
    IF otype = "call"
    THEN [[vals EXCEPT ![1] = 0]
            EXCEPT ![Len(vals)] = VScale * Last(grid)
                                  - DiscountedStrike(strike, tauNum, tauDen)]
    ELSE [[vals EXCEPT ![1] = DiscountedStrike(strike, tauNum, tauDen)]
            EXCEPT ![Len(vals)] = 0]

(***************************************************************************)
(* numpy helpers used by AdaptiveSolver.solve                              *)
(***************************************************************************)
\* Is abs(np.gradient(vals, mesh))[k] > tol ?  One-sided differences at the
\* two ends, the second-order three-point formula inside; compared exactly.
GradientExceeds(vals, mesh, k, tol) ==
    LET len == Len(mesh)
    IN  IF k = 1
        THEN Abs(vals[2] - vals[1]) * tol[2] > tol[1] * VScale * (mesh[2] - mesh[1])
        ELSE IF k = len
        THEN Abs(vals[len] - vals[len - 1]) * tol[2]
                > tol[1] * VScale * (mesh[len] - mesh[len - 1])
        ELSE LET dx1 == mesh[k] - mesh[k - 1]
                 dx2 == mesh[k + 1] - mesh[k]
                 num == dx1 * dx1 * vals[k + 1] + (dx2 * dx2 - dx1 * dx1) * vals[k]
                        - dx2 * dx2 * vals[k - 1]
             IN  Abs(num) * tol[2] > tol[1] * VScale * dx1 * dx2 * (dx1 + dx2)

\* refine_mask = grad > self.refine_tol
RefineMask(vals, mesh, tol) ==
    [k \in 1..Len(mesh) |-> GradientExceeds(vals, mesh, k, tol)]

\* np.interp(x, xp, fp) for one x
InterpAt(x, xp, fp) ==
    IF x <= xp[1] THEN fp[1]
    ELSE IF x >= Last(xp) THEN Last(fp)
    ELSE LET j == CHOOSE j \in 1..(Len(xp) - 1) : xp[j] <= x /\ x < xp[j + 1]
         IN  fp[j] + RoundDiv((fp[j + 1] - fp[j]) * (x - xp[j]), xp[j + 1] - xp[j])

np_interp(xs, xp, fp) == [k \in 1..Len(xs) |-> InterpAt(xs[k], xp, fp)]

(***************************************************************************)
(* The explicit Euler updates                                              *)
(***************************************************************************)
\* solvers.py:33-39 for python index k - 1, reading the row `old`
UniformInterior(old, grid, k, nt) ==
    LET dS == grid[2] - grid[1]
        Si == grid[k]
        A == old[k + 1] - 2 * old[k] + old[k - 1]
        B == old[k + 1] - old[k - 1]
        num == T * (Sig2Num * RDen * Si * Si * A
                    + RNum * Sig2Den * Si * B * dS
                    - 2 * RNum * Sig2Den * old[k] * dS * dS)
        den == 2 * Sig2Den * RDen * dS * dS * nt
    IN  old[k] + RoundDiv(num, den)

\* solvers.py:86-98 for python index k - 1
AdaptiveInterior(vals, mesh, k, nt) ==
    LET dL == mesh[k] - mesh[k - 1]
        dR == mesh[k + 1] - mesh[k]
        Si == mesh[k]
        G == (vals[k + 1] - vals[k]) * dL - (vals[k] - vals[k - 1]) * dR
        B == vals[k + 1] - vals[k - 1]
        D == dR * dL * (dR + dL)
        num == T * (Sig2Num * RDen * Si * Si * G
                    + RNum * Sig2Den * Si * B * dR * dL
                    - RNum * Sig2Den * vals[k] * D)
        den == Sig2Den * RDen * D * nt
    IN  vals[k] + RoundDiv(num, den)


(***************************************************************************)
(* Construction.  __init__ (solvers.py:9-17, 49-53) stores its arguments   *)
(* and checks nothing; the state after construction is any parameter set.  *)
(***************************************************************************)
Init ==
    /\ solver \in {"uniform", "adaptive"}
    /\ option_type \in OptionTypes
    /\ N_S \in 2..MaxNS
    /\ N_t \in 1..MaxNt
    /\ S_max \in 2..MaxSmax
    /\ S_max >= N_S - 1      \* the grid points are distinct at this resolution
    /\ K \in 1..MaxK
    /\ refine_tol \in (IF solver = "adaptive" THEN RefineTols ELSE {<<1, 100>>})
    /\ max_refine_steps \in (IF solver = "adaptive" THEN 0..MaxRefine ELSE {0})
    /\ pc = "start"
    /\ S = <<>>
    /\ V = <<>>
    /\ n = N_t
    /\ i = 0
    /\ Vn = <<>>
    /\ S_curr = <<>>
    /\ V_curr = <<>>
    /\ pass = 0
    /\ grids = <<>>
    /\ V_list = <<>>
    /\ S_list = <<>>
    /\ gridIn = <<>>
    /\ maskIn = <<>>
    /\ gridOut = <<>>

(***************************************************************************)
(* FiniteDifferenceSolver.solve                                            *)
(***************************************************************************)
\* solvers.py:20-26, and the loop header at line 29
USolveBegin ==
    /\ pc = "start"
    /\ solver = "uniform"
    /\ S' = uniform_grid(S_max, N_S)
    /\ V' = [m \in 0..N_t |-> IF m = N_t THEN payoff(S', K, option_type)
                                         ELSE Zeros(N_S)]
    /\ n' = N_t - 1
    /\ pc' = IF N_t >= 1 THEN "u_row" ELSE "u_return"
    /\ UNCHANGED <<params, i, adaptiveVars, gridVars>>

\* solvers.py:30, and the loop header at line 32
URowCopy ==
    /\ pc = "u_row"
    /\ V' = [V EXCEPT ![n] = V[n + 1]]
    /\ i' = 1
    /\ pc' = "u_interior"
    /\ UNCHANGED <<params, S, n, adaptiveVars, gridVars>>

\* variant: the row being written is read
SourceRowInPlace(m) == m
\* the row an interior point of row n is computed from
SourceRow(m) == m + 1

\* solvers.py:33-39, one iteration of the interior loop
UInterior ==
    /\ pc = "u_interior"
    /\ i < N_S - 1
    /\ V' = [V EXCEPT ![n][i + 1] = UniformInterior(V[SourceRow(n)], S, i + 1, N_t)]
    /\ i' = i + 1
    /\ UNCHANGED <<params, pc, S, n, adaptiveVars, gridVars>>

\* solvers.py:41, and the loop header at line 29
UBoundary ==
    /\ pc = "u_interior"
    /\ i >= N_S - 1
    /\ V' = [V EXCEPT ![n] = apply_boundary_conditions(
                  V[n], S, K, T * (N_t - n), N_t, option_type)]
    /\ n' = n - 1
    /\ pc' = IF n = 0 THEN "u_return" ELSE "u_row"
    /\ UNCHANGED <<params, S, i, adaptiveVars, gridVars>>

\* solvers.py:42
UReturn ==
    /\ pc = "u_return"
    /\ pc' = "done"
    /\ UNCHANGED <<params, S, V, n, i, adaptiveVars, gridVars>>

(***************************************************************************)
(* AdaptiveSolver.solve                                                    *)
(***************************************************************************)
\* solvers.py:57-64, and the loop header at line 66
ASolveBegin ==
    /\ pc = "start"
    /\ solver = "adaptive"
    /\ S' = uniform_grid(S_max, N_S)
    /\ grids' = <<S'>>
    /\ Vn' = payoff(S', K, option_type)
    /\ V_list' = [m \in 0..N_t |-> IF m = N_t THEN Vn' ELSE None]
    /\ S_list' = [m \in 0..N_t |-> IF m = N_t THEN S' ELSE None]
    /\ n' = N_t - 1
    /\ pc' = IF N_t >= 1 THEN "a_step" ELSE "a_return"
    /\ UNCHANGED <<params, uniformVars, S_curr, V_curr, pass, gridVars>>

\* solvers.py:67-70: the working mesh restarts from the initial grid S, the
\* working values from the values of the previous step
AStepBegin ==
    /\ pc = "a_step"
    /\ S_curr' = S
    /\ V_curr' = Vn
    /\ pass' = 0
    /\ pc' = "a_refine"
    /\ UNCHANGED <<params, S, n, uniformVars, Vn, grids, V_list, S_list, gridVars>>

\* range(self.max_refine_steps) has another iteration
MorePasses == pass < max_refine_steps

\* solvers.py:71-72: np.gradient raises ValueError when the coordinate array
\* and the values differ in length (or hold fewer than two points)
ARefineRaise ==
    /\ pc = "a_refine"
    /\ MorePasses
    /\ (Len(S_curr) # Len(V_curr) \/ Len(V_curr) < 2)
    /\ pc' = "raised"
    /\ UNCHANGED <<params, S, n, uniformVars, adaptiveVars, gridVars>>

\* solvers.py:72-75: no point flagged, break
ARefineNoFlag ==
    /\ pc = "a_refine"
    /\ MorePasses
    /\ Len(S_curr) = Len(V_curr) /\ Len(V_curr) >= 2
    /\ LET refine_mask == RefineMask(V_curr, S_curr, refine_tol)
       IN  \A k \in 1..Len(S_curr) : ~refine_mask[k]
    /\ pass' = pass + 1
    /\ pc' = "a_advance"
    /\ UNCHANGED <<params, S, n, uniformVars, Vn, S_curr, V_curr, grids, V_list,
                   S_list, gridVars>>

\* variant: the length test left out
FixedPointNever(S_new, mesh) == FALSE
\* has the refinement found nothing to add (solvers.py:77)?
FixedPoint(S_new, mesh) == Len(S_new) = Len(mesh)

\* solvers.py:72-78: points flagged, the refined mesh is no longer, break
ARefineFixedPoint ==
    /\ pc = "a_refine"
    /\ MorePasses
    /\ Len(S_curr) = Len(V_curr) /\ Len(V_curr) >= 2
    /\ LET refine_mask == RefineMask(V_curr, S_curr, refine_tol)
           S_new == adaptive_grid(S_curr, refine_mask)
       IN  /\ \E k \in 1..Len(S_curr) : refine_mask[k]
           /\ FixedPoint(S_new, S_curr)
    /\ pass' = pass + 1
    /\ pc' = "a_advance"
    /\ UNCHANGED <<params, S, n, uniformVars, Vn, S_curr, V_curr, grids, V_list,
                   S_list, gridVars>>

\* solvers.py:72-80: points flagged, the mesh grows, the values follow it
ARefineApply ==
    /\ pc = "a_refine"
    /\ MorePasses
    /\ Len(S_curr) = Len(V_curr) /\ Len(V_curr) >= 2
    /\ LET refine_mask == RefineMask(V_curr, S_curr, refine_tol)
           S_new == adaptive_grid(S_curr, refine_mask)
       IN  /\ \E k \in 1..Len(S_curr) : refine_mask[k]
           /\ ~FixedPoint(S_new, S_curr)
           /\ V_curr' = np_interp(S_new, S_curr, V_curr)
           /\ S_curr' = S_new
    /\ pass' = pass + 1
    /\ UNCHANGED <<params, pc, S, n, uniformVars, Vn, grids, V_list, S_list, gridVars>>

\* solvers.py:71: the range is exhausted
ARefineExhausted ==
    /\ pc = "a_refine"
    /\ ~MorePasses
    /\ pc' = "a_advance"
    /\ UNCHANGED <<params, S, n, uniformVars, adaptiveVars, gridVars>>

\* solvers.py:82-100: Vn1, zeros like V_curr, interior points over the mesh,
\* then the boundary values
AdvanceValues(vals, mesh, m) ==
    LET Vn1 == [k \in 1..Len(vals) |->
                   IF 1 < k /\ k < Len(mesh)
                   THEN AdaptiveInterior(vals, mesh, k, N_t)
                   ELSE 0]
    IN  apply_boundary_conditions(Vn1, mesh, K, T * (N_t - m), N_t, option_type)

\* variant: stored one index too high
StoredIndexAbove(m) == m + 1
\* where a step's mesh is stored
StoredIndex(m) == m

\* solvers.py:81-103, and the loop header at line 66
AAdvance ==
    /\ pc = "a_advance"
    /\ grids' = Append(grids, S_curr)
    /\ IF Len(V_curr) < Len(S_curr)
       THEN \* V_curr[i+1] at line 90 is out of range: IndexError
            /\ pc' = "raised"
            /\ UNCHANGED <<Vn, V_list, S_list, n>>
       ELSE /\ Vn' = AdvanceValues(V_curr, S_curr, n)
            /\ V_list' = [V_list EXCEPT ![n] = Vn']
            /\ S_list' = [S_list EXCEPT ![StoredIndex(n)] = S_curr]
            /\ n' = n - 1
            /\ pc' = IF n = 0 THEN "a_return" ELSE "a_step"
    /\ UNCHANGED <<params, S, uniformVars, S_curr, V_curr, pass, gridVars>>

\* solvers.py:104-106
AReturn ==
    /\ pc = "a_return"
    /\ pc' = "done"
    /\ UNCHANGED <<params, S, n, uniformVars, adaptiveVars, gridVars>>

Next ==
    \/ USolveBegin
    \/ URowCopy
    \/ UInterior
    \/ UBoundary
    \/ UReturn
    \/ ASolveBegin
    \/ AStepBegin
    \/ ARefineRaise
    \/ ARefineNoFlag
    \/ ARefineFixedPoint
    \/ ARefineApply
    \/ ARefineExhausted
    \/ AAdvance
    \/ AReturn

Spec == Init /\ [][Next]_vars

(***************************************************************************)
(* adaptive_grid called on its own, on any strictly increasing grid and    *)
(* any mask aligned with it                                                *)
(***************************************************************************)
InitGrid ==
    /\ \E len \in 1..MaxGridLen :
          /\ gridIn \in {g \in [1..len -> 0..MaxCoord] : StrictlyIncreasing(g)}
          /\ maskIn \in [1..len -> BOOLEAN]
    /\ gridOut = <<>>
    /\ pc = "g_start"
    /\ solver = "grid"
    /\ option_type = "call"
    /\ N_S = 2
    /\ N_t = 1
    /\ S_max = MaxCoord
    /\ K = 1
    /\ refine_tol = <<1, 100>>
    /\ max_refine_steps = 0
    /\ S = <<>>
    /\ V = <<>>
    /\ n = 0
    /\ i = 0
    /\ Vn = <<>>
    /\ S_curr = <<>>
    /\ V_curr = <<>>
    /\ pass = 0
    /\ grids = <<>>
    /\ V_list = <<>>
    /\ S_list = <<>>

\* grids.py:7-19
GRefine ==
    /\ pc = "g_start"
    /\ gridOut' = adaptive_grid(gridIn, maskIn)
    /\ pc' = "g_done"
    /\ UNCHANGED <<params, S, n, uniformVars, adaptiveVars, gridIn, maskIn>>

NextGrid == GRefine

SpecGrid == InitGrid /\ [][NextGrid]_vars


(***************************************************************************)
(* Properties                                                              *)
(***************************************************************************)
ValidOption == option_type \in {"call", "put"}

\* the time indices whose state has been stored for good
Finalized == IF pc \in {"start", "g_start", "g_done"} THEN {}
             ELSE {m \in 0..N_t : m > n}

\* C1: for every valid parameter set AdaptiveSolver.solve never raises, and when
\* it returns every one of the N_t + 1 time indices holds a grid and a value array.
C1_FailFree ==
    (solver = "adaptive" /\ ValidOption) =>
        /\ pc # "raised"
        /\ pc = "done" =>
              /\ DOMAIN S_list = 0..N_t /\ DOMAIN V_list = 0..N_t
              /\ \A m \in 0..N_t : S_list[m] # None /\ V_list[m] # None

\* C2: with an option_type other than call or put neither solver computes
\* anything: no grid and no value array is ever produced.
C2_InvalidOptionRejected ==
    ~ValidOption =>
        /\ pc \in {"start", "rejected"}
        /\ S = <<>> /\ V = <<>> /\ Vn = <<>> /\ V_list = <<>> /\ S_list = <<>>

\* C3: in AdaptiveSolver.solve the working mesh and the working values have the
\* same length at the start of every refinement pass, and every finalized time
\* index stores a mesh and a value array of the same length.
C3_MeshValuesParallel ==
    solver = "adaptive" =>
        /\ (pc = "a_refine" /\ pass < max_refine_steps) => Len(S_curr) = Len(V_curr)
        /\ \A m \in Finalized : Len(S_list[m]) = Len(V_list[m])

\* the closed-form boundary values of section 4.2 at time index m
LeftBoundaryValue(m) ==
    IF option_type = "call" THEN 0
    ELSE DiscountedStrike(K, T * (N_t - m), N_t)
RightBoundaryValue(m) ==
    IF option_type = "call"
    THEN VScale * S_max - DiscountedStrike(K, T * (N_t - m), N_t)
    ELSE 0
BoundaryHolds(m) ==
    /\ V[m][1] = LeftBoundaryValue(m)
    /\ V[m][N_S] = RightBoundaryValue(m)

\* C4 as claimed: every finalized row of the uniform solver, the maturity row
\* N_t included, carries the closed-form boundary values at both ends, whatever
\* K and S_max are.
C4_BoundaryEveryIndex ==
    (solver = "uniform" /\ ValidOption) => \A m \in Finalized : BoundaryHolds(m)

\* C4 as amended: every finalized row below the maturity index carries the
\* closed-form boundary values at both ends for all valid parameters; the
\* maturity row N_t is the payoff and carries them when K <= S_max.
C4_BoundaryBelowMaturity ==
    (solver = "uniform" /\ ValidOption) =>
        \A m \in Finalized : (m < N_t \/ K <= S_max) => BoundaryHolds(m)

C4_Witness ==
    /\ solver = "uniform" /\ pc = "done" /\ ValidOption
    /\ K > S_max /\ N_t >= 2 /\ N_S >= 3
    /\ BoundaryHolds(0) /\ ~BoundaryHolds(N_t)

\* the terminal payoff at price x
PayoffAt(x) ==
    IF option_type = "call" THEN VScale * Max(x - K, 0) ELSE VScale * Max(K - x, 0)

FlaggedMidpoints ==
    {Midpoint(gridIn[k - 1], gridIn[k]) :
        k \in {j \in 2..Len(gridIn) : maskIn[j - 1] \/ maskIn[j]}}
C6_RefineExact ==
    pc = "g_done" =>
        /\ Range(gridOut) = Range(gridIn) \cup FlaggedMidpoints
        /\ StrictlyIncreasing(gridOut)
        /\ Range(gridIn) \subseteq Range(gridOut)
        /\ Len(gridOut) >= Len(gridIn)
        /\ (Len(gridOut) = Len(gridIn)) <=> (FlaggedMidpoints \subseteq Range(gridIn))
        /\ (\A k \in 1..Len(gridIn) : ~maskIn[k]) => gridOut = gridIn

C6_Witness ==
    /\ pc = "g_done"
    /\ Len(gridOut) > Len(gridIn)
    /\ FlaggedMidpoints \cap Range(gridIn) # {}
    /\ \E k \in 1..Len(gridIn) : ~maskIn[k]

\* a pass that stops the refinement loop: nothing flagged, or nothing added
NothingFlagged == \A k \in 1..Len(S_curr) : ~GradientExceeds(V_curr, S_curr, k, refine_tol)
NothingAdded ==
    Len(adaptive_grid(S_curr, RefineMask(V_curr, S_curr, refine_tol))) = Len(S_curr)
StartsPass ==
    /\ pc = "a_refine" /\ pass < max_refine_steps
    /\ Len(S_curr) = Len(V_curr)

\* C7: a time step runs at most max_refine_steps refinement passes; a pass that
\* flags nothing or adds nothing is the last one of its step and leaves the
\* working mesh and values as they were; so does the end of the passes.
C7_RefineLoopBounded ==
    /\ [](pass <= max_refine_steps)
    /\ [][(StartsPass /\ (NothingFlagged \/ NothingAdded)) =>
              (pc' = "a_advance" /\ S_curr' = S_curr /\ V_curr' = V_curr)]_vars
    /\ [][(pc = "a_refine" /\ pass >= max_refine_steps) =>
              (pc' = "a_advance" /\ S_curr' = S_curr /\ V_curr' = V_curr)]_vars
    /\ [][(pc = "a_refine" /\ pc' = "a_refine") => pass' = pass + 1]_vars

C7_Witness ==
    /\ pc = "a_advance"
    /\ 2 <= pass /\ pass < max_refine_steps
    /\ Len(S_curr) > N_S
    /\ ~NothingFlagged /\ NothingAdded

\* C8 as claimed: the history returned holds N_t snapshots, the k-th of them
\* (k = 1..N_t) the mesh of the step to time index N_t - k, equal to
\* S_list[N_t - k].
C8_OneSnapshotPerStep ==
    (solver = "adaptive" /\ pc = "done") =>
        /\ Len(grids) = N_t
        /\ \A k \in 1..N_t : grids[k] = S_list[N_t - k]

\* C8 as amended: the history holds the initial uniform grid followed by one
\* snapshot per executed time step, in the order the steps run (N_t + 1 entries
\* once all N_t steps ran); python entry N_t - m is the mesh stored as S_list[m].
C8_HistoryAfterInitialGrid ==
    (solver = "adaptive" /\ pc # "start") =>
        /\ Len(grids) = N_t - n
        /\ grids[1] = S
        /\ \A m \in Finalized : grids[N_t - m + 1] = S_list[m]
        /\ pc = "done" => Len(grids) = N_t + 1

C8_Witness ==
    /\ solver = "adaptive" /\ pc = "done"
    /\ N_t >= 2
    /\ Len(S_list[0]) > N_S
    /\ Len(grids) = N_t + 1

\* what is stored for time index m
Stored(m) == IF solver = "uniform" THEN <<S, V[m]>> ELSE <<S_list[m], V_list[m]>>

\* C10: time indices are finalized one at a time in the order N_t, N_t-1, ..., 0
\* (all of them once solve returns); the interior of row n of the uniform solver
\* is the explicit update of row n+1 alone; every adaptive step that finalizes
\* index n started from the mesh and the values stored at n+1, its working
\* values are those values on the refined mesh, and its interior is the update
\* of the working values; and nothing stored for a finalized index changes
\* afterwards.
C10_BackwardNoRevisit ==
    /\ [](pc = "done" => Finalized = 0..N_t)
    /\ [](solver = "adaptive" /\ pc # "start" =>
            \A m \in 0..N_t : /\ (S_list[m] # None) <=> (m \in Finalized)
                              /\ (V_list[m] # None) <=> (m \in Finalized))
    /\ [][Finalized' # Finalized =>
            /\ Finalized' = Finalized \cup {n}
            /\ n' = n - 1
            /\ \A m \in Finalized : m > n]_vars
    /\ [][\A m \in Finalized : Stored(m)' = Stored(m)]_vars
    /\ [](solver = "uniform" =>
            \A m \in Finalized : m < N_t =>
                \A k \in 2..(N_S - 1) :
                    V[m][k] = UniformInterior(V[m + 1], S, k, N_t))
    /\ [][pc = "a_step" => V_curr' = V_list[n + 1]]_vars
    /\ [][(pc = "a_advance" /\ pc' # "raised") =>
            /\ S = S_list[n + 1]
            /\ \A x \in Range(S_list[n + 1]) :
                  x \in Range(S_curr) /\ InterpAt(x, S_curr, V_curr) = InterpAt(x, S, Vn)
            /\ \A k \in 2..(Len(S_curr) - 1) :
                  V_list'[n][k] = AdaptiveInterior(V_curr, S_curr, k, N_t)]_vars

C10_Witness ==
    /\ solver = "uniform" /\ pc = "done"
    /\ N_S >= 4 /\ N_t >= 2
    /\ V[0][2] # V[1][2] /\ V[0][3] # V[1][3] /\ V[1][2] # V[2][2]

=============================================================================
